---------------------------- MODULE Spec2Model ----------------------------
(***************************************************************************)
(* A model of app/jules-scratch/verification/verify_app.py: one run of the *)
(* script, statement by statement.                                         *)
(*                                                                         *)
(*   1  from playwright.sync_api import sync_playwright                    *)
(*   3  with sync_playwright() as p:                                       *)
(*   4      browser = p.chromium.launch()                                  *)
(*   5      page = browser.new_page()                                      *)
(*   6      page.goto("http://localhost:5173/src")                         *)
(*   7      page.screenshot(path="app/jules-scratch/.../verification.png") *)
(*   8      browser.close()                                                *)
(*                                                                         *)
(* The import, the context entry and each of the five calls either return  *)
(* or raise.  The script has no try, so an exception raised inside the     *)
(* with block leaves the block through the context manager's __exit__      *)
(* (which does not suppress it) and ends the interpreter with a non-zero   *)
(* status.  __exit__ is the library's release of what it acquired: it      *)
(* stops Playwright and the browsers it started, and returns.  The         *)
(* environment of a run (is the target reachable, is the output location   *)
(* writable, is a browser installed, which files exist beforehand) is      *)
(* chosen in Init.                                                         *)
(***************************************************************************)
EXTENDS Naturals, Sequences, FiniteSets

VARIABLES
    pc,            \* the statement the script is about to execute
    env,           \* the environment of this run, fixed for the run
    fs0,           \* the file system before the run
    fs,            \* the file system now: path -> what is stored there
    written,       \* the paths this run has written to
    ctx,           \* the sync_playwright context: none, entered, exited
    browser,       \* the browser process: none, running, closed, killed
    page,          \* the page handle: none, about:blank, the URL, closed
    calls,         \* the import and library calls so far, each with its outcome
    raised,        \* the call whose exception is propagating, or none
    status,        \* the exit status of the process: running, zero, nonzero
    browserEvents  \* the life of the browser process: spawned, closed, killed

vars == <<pc, env, fs0, fs, written, ctx, browser, page, calls, raised,
          status, browserEvents>>

\* The literals of the script.
URL == "http://localhost:5173/src"
OutputPath == "app/jules-scratch/verification/verification.png"

\* Some other file beside it, which the script never names.
OtherPath == "app/jules-scratch/verification/other.png"
Paths == {OutputPath, OtherPath}

\* The five calls of the with block, in the order of lines 4 to 8.
Steps == <<"launch", "new_page", "goto", "screenshot", "close">>
\* Everything the script executes that can raise: the import of line 1, the
\* context entry of line 3, then the steps.
AllCalls == <<"import", "sync_playwright">> \o Steps

Environments == [reachable : BOOLEAN, writable : BOOLEAN, installed : BOOLEAN]

Init ==
    /\ pc = "import"
    /\ env \in Environments
    /\ fs0 \in [Paths -> {"absent", "stale"}]
    /\ fs = fs0
    /\ written = {}
    /\ ctx = "none"
    /\ browser = "none"
    /\ page = "none"
    /\ calls = <<>>
    /\ raised = "none"
    /\ status = "running"
    /\ browserEvents = <<>>

\* The import or a library call is executed and its outcome is known.
Call(step, ok) == calls' = Append(calls, [step |-> step, ok |-> ok])

\* The call returns: control passes to the next statement.
Returns(step, next) ==
    /\ Call(step, TRUE)
    /\ pc' = next
    /\ UNCHANGED <<raised, status>>

\* The call raises inside the with block: nothing catches it, so control
\* leaves the block through the context manager's __exit__.
Raises(step) ==
    /\ Call(step, FALSE)
    /\ raised' = step
    /\ pc' = "unwind"
    /\ UNCHANGED status

\* The statement raises outside the with block: nothing catches it and no
\* __exit__ is due, so the interpreter ends at once.
Fails(step) ==
    /\ Call(step, FALSE)
    /\ raised' = step
    /\ pc' = "failed"
    /\ status' = "nonzero"

\* Line 1: from playwright.sync_api import sync_playwright
Import ==
    /\ pc = "import"
    /\ \/ Returns("import", "enter")
       \/ Fails("import")
    /\ UNCHANGED <<env, fs0, fs, written, ctx, browser, page, browserEvents>>

\* Line 3, __enter__: start Playwright.  If it raises, the with block is
\* never entered and __exit__ is not called.
Enter ==
    /\ pc = "enter"
    /\ \/ /\ Returns("sync_playwright", "launch")
          /\ ctx' = "entered"
       \/ /\ Fails("sync_playwright")
          /\ UNCHANGED ctx
    /\ UNCHANGED <<env, fs0, fs, written, browser, page, browserEvents>>

\* Line 4: browser = p.chromium.launch()
Launch ==
    /\ pc = "launch"
    /\ \/ /\ env.installed
          /\ Returns("launch", "new_page")
          /\ browser' = "running"
          /\ browserEvents' = Append(browserEvents, "spawned")
       \/ /\ Raises("launch")
          /\ UNCHANGED <<browser, browserEvents>>
    /\ UNCHANGED <<env, fs0, fs, written, ctx, page>>

\* Lines 6 and 7 with the navigation left out: the screenshot follows
\* new_page directly.
NewPageThenScreenshot ==
    /\ pc = "new_page"
    /\ \/ /\ Returns("new_page", "screenshot")
          /\ page' = "about:blank"
       \/ /\ Raises("new_page")
          /\ UNCHANGED page
    /\ UNCHANGED <<env, fs0, fs, written, ctx, browser, browserEvents>>

\* Line 5: page = browser.new_page()
NewPage ==
    /\ pc = "new_page"
    /\ \/ /\ Returns("new_page", "goto")
          /\ page' = "about:blank"
       \/ /\ Raises("new_page")
          /\ UNCHANGED page
    /\ UNCHANGED <<env, fs0, fs, written, ctx, browser, browserEvents>>

\* Line 6 with the call wrapped in try/except: pass.
GotoSwallowed ==
    /\ pc = "goto"
    /\ \/ /\ env.reachable
          /\ Returns("goto", "screenshot")
          /\ page' = URL
       \/ /\ Call("goto", FALSE)
          /\ pc' = "screenshot"
          /\ UNCHANGED <<page, raised, status>>
    /\ UNCHANGED <<env, fs0, fs, written, ctx, browser, browserEvents>>

\* Line 6 inside a retry loop: a failed navigation is attempted again.
GotoRetried ==
    /\ pc = "goto"
    /\ \/ /\ env.reachable
          /\ Returns("goto", "screenshot")
          /\ page' = URL
       \/ /\ Call("goto", FALSE)
          /\ UNCHANGED <<pc, page, raised, status>>
    /\ UNCHANGED <<env, fs0, fs, written, ctx, browser, browserEvents>>

\* Line 6: page.goto("http://localhost:5173/src").  It returns only when the
\* target answered; it may raise even then (the library's load timeout).
Goto ==
    /\ pc = "goto"
    /\ \/ /\ env.reachable
          /\ Returns("goto", "screenshot")
          /\ page' = URL
       \/ /\ Raises("goto")
          /\ UNCHANGED page
    /\ UNCHANGED <<env, fs0, fs, written, ctx, browser, browserEvents>>

\* What a failed screenshot leaves behind: nothing, or a truncated file at
\* the path it was writing to.
FailedWrite(path) ==
    \/ UNCHANGED <<fs, written>>
    \/ /\ fs' = [fs EXCEPT ![path] = "partial"]
       /\ written' = written \cup {path}

\* Line 7 with another path argument.
ScreenshotElsewhere ==
    /\ pc = "screenshot"
    /\ \/ /\ env.writable
          /\ Returns("screenshot", "close")
          /\ fs' = [fs EXCEPT ![OtherPath] = "image"]
          /\ written' = written \cup {OtherPath}
       \/ /\ Raises("screenshot")
          /\ FailedWrite(OtherPath)
    /\ UNCHANGED <<env, fs0, ctx, browser, page, browserEvents>>

\* Line 7 without the path argument: the image is returned, not stored.
ScreenshotNoPath ==
    /\ pc = "screenshot"
    /\ \/ Returns("screenshot", "close")
       \/ Raises("screenshot")
    /\ UNCHANGED <<env, fs0, fs, written, ctx, browser, page, browserEvents>>

\* Line 7 followed by a wait for the operator (a page.pause() left in).
ScreenshotThenPause ==
    /\ pc = "screenshot"
    /\ \/ /\ env.writable
          /\ Returns("screenshot", "paused")
          /\ fs' = [fs EXCEPT ![OutputPath] = "image"]
          /\ written' = written \cup {OutputPath}
       \/ /\ Raises("screenshot")
          /\ FailedWrite(OutputPath)
    /\ UNCHANGED <<env, fs0, ctx, browser, page, browserEvents>>

\* Line 7: page.screenshot(path="app/jules-scratch/verification/verification.png")
\* captures the page as it is and stores the image at the path.
Screenshot ==
    /\ pc = "screenshot"
    /\ \/ /\ env.writable
          /\ Returns("screenshot", "close")
          /\ fs' = [fs EXCEPT ![OutputPath] = "image"]
          /\ written' = written \cup {OutputPath}
       \/ /\ Raises("screenshot")
          /\ FailedWrite(OutputPath)
    /\ UNCHANGED <<env, fs0, ctx, browser, page, browserEvents>>

\* Line 8 with the call wrapped in try/except: pass.
CloseSwallowed ==
    /\ pc = "close"
    /\ \/ /\ Returns("close", "exit")
          /\ browser' = "closed"
          /\ page' = "closed"
          /\ browserEvents' = Append(browserEvents, "closed")
       \/ /\ Call("close", FALSE)
          /\ pc' = "exit"
          /\ UNCHANGED <<browser, page, browserEvents, raised, status>>
    /\ UNCHANGED <<env, fs0, fs, written, ctx>>

\* Line 8 closing the page instead of the browser (page.close()).
ClosePageOnly ==
    /\ pc = "close"
    /\ \/ /\ Returns("close", "exit")
          /\ page' = "closed"
          /\ UNCHANGED <<browser, browserEvents>>
       \/ /\ Raises("close")
          /\ UNCHANGED <<browser, page, browserEvents>>
    /\ UNCHANGED <<env, fs0, fs, written, ctx>>

\* Line 8: browser.close()
Close ==
    /\ pc = "close"
    /\ \/ /\ Returns("close", "exit")
          /\ browser' = "closed"
          /\ page' = "closed"
          /\ browserEvents' = Append(browserEvents, "closed")
       \/ /\ Raises("close")
          /\ UNCHANGED <<browser, page, browserEvents>>
    /\ UNCHANGED <<env, fs0, fs, written, ctx>>

\* The context manager's __exit__: Playwright stops, and with it every
\* browser it started that is still running.
StopPlaywright ==
    /\ ctx' = "exited"
    /\ browser' = IF browser = "running" THEN "killed" ELSE browser
    /\ browserEvents' = IF browser = "running"
                        THEN Append(browserEvents, "killed")
                        ELSE browserEvents
    /\ page' = IF page \in {"about:blank", URL} THEN "closed" ELSE page

\* Line 3, __exit__ at the end of the block: the script ends normally.
Exit ==
    /\ pc = "exit"
    /\ StopPlaywright
    /\ pc' = "done"
    /\ status' = "zero"
    /\ UNCHANGED <<env, fs0, fs, written, calls, raised>>

\* The block without the with statement (p = sync_playwright().start()):
\* an exception ends the script with Playwright never stopped.
UnwindLeak ==
    /\ pc = "unwind"
    /\ pc' = "failed"
    /\ status' = "nonzero"
    /\ UNCHANGED <<env, fs0, fs, written, ctx, browser, page, calls, raised,
                   browserEvents>>

\* The block with a try/finally of the script's own that calls
\* browser.close() on the way out.
UnwindClosing ==
    /\ pc = "unwind"
    /\ calls' = Append(calls, [step |-> "close", ok |-> TRUE])
    /\ ctx' = "exited"
    /\ browser' = IF browser = "running" THEN "closed" ELSE browser
    /\ browserEvents' = IF browser = "running"
                        THEN Append(browserEvents, "closed")
                        ELSE browserEvents
    /\ page' = IF page \in {"about:blank", URL} THEN "closed" ELSE page
    /\ pc' = "failed"
    /\ status' = "nonzero"
    /\ UNCHANGED <<env, fs0, fs, written, raised>>

\* Line 3, __exit__ with an exception propagating: Playwright stops, the
\* exception is not suppressed and ends the interpreter.
Unwind ==
    /\ pc = "unwind"
    /\ StopPlaywright
    /\ pc' = "failed"
    /\ status' = "nonzero"
    /\ UNCHANGED <<env, fs0, fs, written, calls, raised>>

Next ==
    \/ Import
    \/ Enter
    \/ Launch
    \/ NewPage
    \/ Goto
    \/ Screenshot
    \/ Close
    \/ Exit
    \/ Unwind

Spec == Init /\ [][Next]_vars

\* The script is the only thread of its process and every library call
\* returns or raises, so a statement that can execute does.
FairSpec == Spec /\ WF_vars(Next)

Terminal == pc \in {"done", "failed"}

-----------------------------------------------------------------------------
\* What the log of calls says.

\* Call number i of the run was `step` and ended as `ok` says.
Has(step, ok) == \E i \in 1..Len(calls) : calls[i] = [step |-> step, ok |-> ok]
Called(step) == \E i \in 1..Len(calls) : calls[i].step = step
Count(step) == Cardinality({i \in 1..Len(calls) : calls[i].step = step})
Failures == {i \in 1..Len(calls) : ~calls[i].ok}
StepNames == {Steps[i] : i \in 1..Len(Steps)}
CallNames == {AllCalls[i] : i \in 1..Len(AllCalls)}
Events(e) == \E i \in 1..Len(browserEvents) : browserEvents[i] = e

\* How far the script has come.
Rank(at) ==
    CASE at = "import" -> 0
      [] at = "enter" -> 1
      [] at = "launch" -> 2
      [] at = "new_page" -> 3
      [] at = "goto" -> 4
      [] at = "screenshot" -> 5
      [] at = "close" -> 6
      [] at \in {"exit", "unwind"} -> 7
      [] at \in {"done", "failed"} -> 8
      [] OTHER -> 0

-----------------------------------------------------------------------------
\* C1: a run in which launch, new_page, goto and the screenshot write all
\* succeeded ends with exactly one image file, at the hardcoded output path,
\* and with no other file written by the script.
C1_OneImageAtOutputPath ==
    (/\ Terminal
     /\ Has("launch", TRUE) /\ Has("new_page", TRUE)
     /\ Has("goto", TRUE) /\ Has("screenshot", TRUE))
    => /\ written = {OutputPath}
       /\ {f \in Paths : fs[f] = "image"} = {OutputPath}
       /\ \A f \in Paths \ {OutputPath} : fs[f] = fs0[f]

\* A successful run that replaced a stale file at the output path.
C1_Witness ==
    /\ pc = "done"
    /\ Has("screenshot", TRUE)
    /\ fs0[OutputPath] = "stale"
    /\ fs[OutputPath] = "image"

\* C2: when the target is unreachable the navigation fails; a run whose
\* navigation failed is on its way to the failed terminal state (non-zero
\* status), never executes the screenshot step and writes no file.
C2_UnreachableNoOutput ==
    /\ (~env.reachable /\ Called("goto")) => Has("goto", FALSE)
    /\ Has("goto", FALSE)
       => /\ pc \in {"unwind", "failed"}
          /\ pc = "unwind" => ENABLED Unwind
          /\ Terminal => status = "nonzero"
          /\ ~Called("screenshot")
          /\ written = {}
          /\ fs = fs0

\* A run against an unreachable target has ended.
C2_Witness ==
    /\ pc = "failed"
    /\ ~env.reachable
    /\ raised = "goto"
    /\ status = "nonzero"

\* C3: in every terminal state, after success or after a failure at any
\* step, the browser process is not running.
C3_BrowserNotLeftRunning == Terminal => browser # "running"

\* A run that failed while its browser was running has ended, and the
\* browser is gone.
C3_Witness ==
    /\ pc = "failed"
    /\ raised \in {"new_page", "goto", "screenshot", "close"}
    /\ Events("spawned")
    /\ browser = "killed"

\* C4: a failed call is not caught: it is the last call the script makes, its
\* exception is the one propagating, and the run is on its way to (or in) the
\* failed terminal state, which exits non-zero.
C4_FailureNotCaught ==
    /\ \A i \in Failures :
          /\ i = Len(calls)
          /\ raised = calls[i].step
          /\ pc \in {"unwind", "failed"}
    /\ pc = "unwind" => ENABLED Unwind
    /\ pc = "failed" => (Failures # {} /\ status = "nonzero")
    /\ pc = "done" => (Failures = {} /\ status = "zero")

\* browser.close() raised and the run ended in failure.
C4_Witness ==
    /\ pc = "failed"
    /\ raised = "close"
    /\ Has("screenshot", TRUE)

\* C5: the calls happen in the order of the script (launch, new_page, goto,
\* screenshot, close), each only after every earlier one returned, and the
\* screenshot only of a page that has navigated to the URL.
C5_FixedOrder ==
    /\ Len(calls) <= Len(AllCalls)
    /\ \A i \in 1..Len(calls) :
          /\ calls[i].step = AllCalls[i]
          /\ i < Len(calls) => calls[i].ok
    /\ Called("screenshot") => Has("goto", TRUE)
    /\ pc = "screenshot" => page = URL

\* All five steps have run to the end.
C5_Witness ==
    /\ pc = "done"
    /\ Len(calls) = Len(AllCalls)

\* C6: browser.close is called only when every earlier step returned; in a
\* run whose navigation or screenshot failed it is never called, and what
\* cleans up is the exit of the sync_playwright context.
C6_CloseOnlyOnNormalPath ==
    /\ Called("close") => Has("screenshot", TRUE)
    /\ (Has("goto", FALSE) \/ Has("screenshot", FALSE))
       => /\ ~Called("close")
          /\ ~Events("closed")
          /\ Terminal => (ctx = "exited" /\ browser = "killed")

\* The screenshot failed; the context exit, not browser.close, ended the browser.
C6_Witness ==
    /\ pc = "failed"
    /\ raised = "screenshot"
    /\ ctx = "exited"
    /\ ~Called("close")

\* C7: each call is made at most once in a run, whether it failed or returned.
C7_AtMostOnce == \A s \in CallNames : Count(s) <= 1

\* The navigation failed and was made once.
C7_Witness ==
    /\ Terminal
    /\ Has("goto", FALSE)
    /\ Count("goto") = 1

\* C8: the browser runs from launch until close; while no call has failed
\* it is started once and ended once, by close, the last call; and a page
\* handle is open only while the browser is running.
C8_AcquiredOnceReleasedOnce ==
    /\ pc \in {"new_page", "goto", "screenshot", "close"} => browser = "running"
    /\ page \in {"about:blank", URL} => browser = "running"
    /\ Failures = {} =>
          /\ pc \in {"import", "enter", "launch"} => browserEvents = <<>>
          /\ pc \in {"new_page", "goto", "screenshot", "close"}
                => browserEvents = <<"spawned">>
          /\ pc \in {"exit", "done"}
                => /\ browserEvents = <<"spawned", "closed">>
                   /\ browser = "closed"
                   /\ calls[Len(calls)].step = "close"

\* The success path has ended: the browser was started once and closed once.
C8_Witness ==
    /\ pc = "done"
    /\ browserEvents = <<"spawned", "closed">>
    /\ page = "closed"

\* C9, amended: every run reaches a terminal state: success with all five
\* steps completed, or failure with exactly one of the import, the context
\* entry and the five steps having raised; the script never waits and never
\* goes back.
C9_Terminates ==
    /\ <>Terminal
    /\ [](pc = "done" => \A s \in StepNames : Has(s, TRUE))
    /\ [](pc = "failed" => (Cardinality(Failures) = 1 /\ raised \in CallNames))
    /\ [](~Terminal => ENABLED Next)
    /\ [][Rank(pc') > Rank(pc)]_vars

\* C9 as stated: a terminal state is success with all five steps completed,
\* or failure with one of the five steps having raised.
C9_AsStated ==
    Terminal =>
       \/ pc = "done" /\ \A s \in StepNames : Has(s, TRUE)
       \/ pc = "failed" /\ raised \in StepNames

\* A run has ended in failure before any of the five steps: entering the
\* sync_playwright context raised.
C9_Witness ==
    /\ pc = "failed"
    /\ raised = "sync_playwright"
    /\ Cardinality(Failures) = 1
    /\ \A s \in StepNames : ~Called(s)

\* C10: a file is written only by a run whose navigation returned, and a run
\* that ends in success has written the image to the output path.
C10_OutputIffNavigated ==
    /\ (written # {} \/ fs # fs0) => Has("goto", TRUE)
    /\ pc = "done" => (OutputPath \in written /\ fs[OutputPath] = "image")

\* A successful run created the output file.
C10_Witness ==
    /\ pc = "done"
    /\ fs0[OutputPath] = "absent"
    /\ fs[OutputPath] = "image"

=============================================================================
